---- MODULE Spec2Model ----
(***************************************************************************)
(* Model of the bookstore catalog service (src/app.py): the CRUD handlers  *)
(* over the MongoDB collection "books", the filtered searches and the      *)
(* aggregation pipelines.                                                  *)
(*                                                                         *)
(* Text (titles, authors, identifiers, regex patterns) is a sequence of    *)
(* one-character strings.  Prices are in hundredths (999 is 9.99).         *)
(* An optional argument is a set: {} when absent (None), {v} when present. *)
(***************************************************************************)
EXTENDS Integers, Sequences, FiniteSets, TLC

VARIABLES collection, nextId, response

vars == <<collection, nextId, response>>

\* Most insert_one calls of one run.
MaxInserts == 2

\* Width of an ObjectId in hexadecimal digits (24 in bson, scaled down).
OidLen == 2

(***************************************************************************)
(* Text helpers                                                            *)
(***************************************************************************)
Range(s) == {s[i] : i \in 1..Len(s)}

\* str.strip() == "": nothing but whitespace
IsBlank(s) == \A i \in 1..Len(s) : s[i] = " "

(***************************************************************************)
(* ObjectId <-> text                                                       *)
(***************************************************************************)
HexDigits == <<"0", "1", "2", "3", "4", "5", "6", "7",
               "8", "9", "a", "b", "c", "d", "e", "f">>

IsHex(c) == \E i \in 1..16 : HexDigits[i] = c

HexVal(c) == (CHOOSE i \in 1..16 : HexDigits[i] = c) - 1

RECURSIVE ToHex(_, _)
ToHex(n, w) ==
    IF w = 0 THEN <<>>
    ELSE Append(ToHex(n \div 16, w - 1), HexDigits[(n % 16) + 1])

RECURSIVE FromHex(_)
FromHex(s) ==
    IF s = <<>> THEN 0
    ELSE FromHex(SubSeq(s, 1, Len(s) - 1)) * 16 + HexVal(s[Len(s)])

\* str(book["_id"])
ObjectIdStr(oid) == ToHex(oid, OidLen)

\* ObjectId(book_id) raises InvalidId unless book_id is OidLen hex digits
WellFormed(s) == Len(s) = OidLen /\ \A i \in 1..Len(s) : IsHex(s[i])

\* ObjectId(book_id): {} stands for the InvalidId exception
ObjectId(s) == IF WellFormed(s) THEN {FromHex(s)} ELSE {}

(***************************************************************************)
(* The Book model and the inputs of the CRUD handlers                      *)
(***************************************************************************)
BookFields == {"title", "author", "description", "price", "stock"}

GoodBook ==
    [title |-> <<"a", "b">>, author |-> <<"b">>, description |-> <<"d">>,
     price |-> 1000, stock |-> 3]

Titles == {<<"a", "b">>, <<" ">>}
Authors == {<<"b">>, <<>>}
Descriptions == {<<"d">>, <<>>}
Prices == {1000, 0, -1}
Stocks == {3, 0, -1}

\* The request bodies: GoodBook and every Book that differs from it in one field.
Books ==
    {b \in [title : Titles, author : Authors, description : Descriptions,
            price : Prices, stock : Stocks] :
        Cardinality({f \in BookFields : b[f] # GoodBook[f]}) <= 1}

\* A stored document: the Book's fields and the store-assigned _id.
Doc(oid, book) ==
    [_id |-> oid, title |-> book.title, author |-> book.author,
     description |-> book.description, price |-> book.price,
     stock |-> book.stock]

\* Book(**book): the extra _id is ignored
ToBook(doc) ==
    [title |-> doc.title, author |-> doc.author,
     description |-> doc.description, price |-> doc.price,
     stock |-> doc.stock]

\* The path parameters book_id: the identifier no insert ever received (0),
\* every identifier an insert may receive, one too short, one with a non-hex digit.
IdStrings ==
    {ObjectIdStr(n) : n \in 0..MaxInserts}
        \cup {ToHex(1, OidLen - 1), <<"g">> \o ToHex(1, OidLen - 1)}

(***************************************************************************)
(* The store                                                               *)
(***************************************************************************)
Ids(coll) == {coll[i]._id : i \in 1..Len(coll)}

\* collection.find_one({"_id": oid})
FindOne(coll, oid) ==
    IF oid \in Ids(coll)
    THEN {coll[CHOOSE i \in 1..Len(coll) : coll[i]._id = oid]}
    ELSE {}

\* collection.insert_one(book_data)
InsertOne(coll, oid, book) == Append(coll, Doc(oid, book))

\* update_one called with upsert=True
UpdateOneUpsert(coll, oid, book) ==
    IF oid \in Ids(coll)
    THEN [i \in 1..Len(coll) |->
            IF coll[i]._id = oid THEN Doc(oid, book) ELSE coll[i]]
    ELSE Append(coll, Doc(oid, book))

\* collection.update_one({"_id": oid}, {"$set": book}): no upsert
UpdateOne(coll, oid, book) ==
    [i \in 1..Len(coll) |->
        IF coll[i]._id = oid THEN Doc(oid, book) ELSE coll[i]]

\* result.modified_count: a matched document that $set leaves as it was is not modified
ModifiedCount(coll, oid, book) ==
    IF oid \in Ids(coll) /\ UpdateOne(coll, oid, book) # coll THEN 1 ELSE 0

\* collection.delete_one({"_id": oid})
DeleteOne(coll, oid) == SelectSeq(coll, LAMBDA d : d._id # oid)

DeletedCount(coll, oid) == IF oid \in Ids(coll) THEN 1 ELSE 0

(***************************************************************************)
(* POST /books                                                             *)
(***************************************************************************)
\* create_book with the price check written "<= 0"
CreateRejectedZeroPrice(book) ==
    \/ book.stock < 0
    \/ book.price <= 0
    \/ \E f \in {"title", "author", "description"} : IsBlank(book[f])

\* create_book without the price check
CreateRejectedNoPriceCheck(book) ==
    \/ book.stock < 0
    \/ \E f \in {"title", "author", "description"} : IsBlank(book[f])

\* The checks of create_book, in the order of the code; every HTTPException
\* raised in the try block is re-raised as status 400 by the except clause.
CreateRejected(book) ==
    \/ book.stock < 0
    \/ book.price < 0
    \/ \E f \in {"title", "author", "description"} : IsBlank(book[f])

create_book(book) ==
    IF CreateRejected(book)
    THEN /\ response' = [op |-> "create_book", book |-> book,
                         status |-> 400, assigned |-> {}]
         /\ UNCHANGED <<collection, nextId>>
    ELSE /\ nextId <= MaxInserts
         /\ collection' = InsertOne(collection, nextId, book)
         /\ nextId' = nextId + 1
         /\ response' = [op |-> "create_book", book |-> book,
                         status |-> 200, assigned |-> {nextId}]

(***************************************************************************)
(* PUT /books/{book_id}                                                    *)
(***************************************************************************)
UpdateMessage(modified_count) ==
    IF modified_count = 1 THEN "Book updated successfully"
    ELSE "Book not found"

update_book(book_id, book) ==
    IF ObjectId(book_id) = {}
    THEN \* InvalidId is not caught: internal server error
         /\ response' = [op |-> "update_book", id |-> book_id,
                         status |-> 500, message |-> "InvalidId"]
         /\ UNCHANGED <<collection, nextId>>
    ELSE LET oid == CHOOSE o \in ObjectId(book_id) : TRUE IN
         /\ collection' = UpdateOne(collection, oid, book)
         /\ response' = [op |-> "update_book", id |-> book_id,
                         status |-> 200,
                         message |-> UpdateMessage(ModifiedCount(collection, oid, book))]
         /\ UNCHANGED nextId

(***************************************************************************)
(* DELETE /books/{book_id}                                                 *)
(***************************************************************************)
DeleteMessage(deleted_count) ==
    IF deleted_count = 1 THEN "Book deleted successfully"
    ELSE "Book not found"

delete_book(book_id) ==
    IF ObjectId(book_id) = {}
    THEN /\ response' = [op |-> "delete_book", id |-> book_id,
                         status |-> 500, message |-> "InvalidId"]
         /\ UNCHANGED <<collection, nextId>>
    ELSE LET oid == CHOOSE o \in ObjectId(book_id) : TRUE IN
         /\ collection' = DeleteOne(collection, oid)
         /\ response' = [op |-> "delete_book", id |-> book_id,
                         status |-> 200,
                         message |-> DeleteMessage(DeletedCount(collection, oid))]
         /\ UNCHANGED nextId

(***************************************************************************)
(* GET /books/{book_id}                                                    *)
(***************************************************************************)
\* The try block: returns the book, or raises InvalidId (from ObjectId) or
\* HTTPException(404) (when find_one finds nothing).
GetBookTry(coll, book_id) ==
    IF ObjectId(book_id) = {}
    THEN [raised |-> {"InvalidId"}, body |-> {}]
    ELSE LET book == FindOne(coll, CHOOSE o \in ObjectId(book_id) : TRUE) IN
         IF book # {}
         THEN [raised |-> {},
               body |-> {[d EXCEPT !._id = ObjectIdStr(d._id)] : d \in book}]
         ELSE [raised |-> {"HTTPException404"}, body |-> {}]

\* The bare except: whatever the try block raised becomes status 400.
GetBookById(coll, book_id) ==
    LET r == GetBookTry(coll, book_id) IN
    IF r.raised # {}
    THEN [status |-> 400, detail |-> "Invalid book ID", body |-> {}]
    ELSE [status |-> 200, detail |-> "", body |-> r.body]

get_book_by_id(book_id) ==
    LET r == GetBookById(collection, book_id) IN
    /\ response' = [op |-> "get_book_by_id", id |-> book_id,
                    status |-> r.status, detail |-> r.detail, body |-> r.body]
    /\ UNCHANGED <<collection, nextId>>

(***************************************************************************)
(* GET /stats/total-books                                                  *)
(***************************************************************************)
\* collection.aggregate([{"$count": "total_books"}]): no document when the
\* collection is empty
AggregateCount(coll) ==
    IF Len(coll) = 0 THEN <<>> ELSE <<[total_books |-> Len(coll)]>>

\* get_total_books without its else branch
TotalBooksNoElse(result) ==
    IF result # <<>> THEN {result[1].total_books} ELSE {}

\* what the handler returns: {n}; {} would be an absent result
TotalBooks(result) ==
    IF result # <<>> THEN {result[1].total_books} ELSE {0}

get_total_books ==
    /\ response' = [op |-> "get_total_books", status |-> 200,
                    body |-> TotalBooks(AggregateCount(collection))]
    /\ UNCHANGED <<collection, nextId>>

(***************************************************************************)
(* The CRUD service                                                        *)
(***************************************************************************)
NoResponse == [op |-> "none", status |-> 0]

Init ==
    /\ collection = <<>>
    /\ nextId = 1
    /\ response = NoResponse

Next ==
    \/ \E book \in Books : create_book(book)
    \/ \E book_id \in IdStrings, book \in Books : update_book(book_id, book)
    \/ \E book_id \in IdStrings : delete_book(book_id)
    \/ \E book_id \in IdStrings : get_book_by_id(book_id)
    \/ get_total_books

Spec == Init /\ [][Next]_vars

(***************************************************************************)
(* Regular expressions of the store ($regex with $options "i")             *)
(*                                                                         *)
(* The subset of PCRE that the patterns of this service are built from: a  *)
(* literal character, "." (any character), and the quantifiers "*" and "+" *)
(* after an item, each optionally made possessive by a following "+".      *)
(***************************************************************************)
UpperLetters == <<"A", "B", "C", "D", "E", "F", "G", "H", "I", "J", "K", "L", "M",
                  "N", "O", "P", "Q", "R", "S", "T", "U", "V", "W", "X", "Y", "Z">>

LowerLetters == <<"a", "b", "c", "d", "e", "f", "g", "h", "i", "j", "k", "l", "m",
                  "n", "o", "p", "q", "r", "s", "t", "u", "v", "w", "x", "y", "z">>

Lower(c) ==
    IF \E i \in 1..26 : UpperLetters[i] = c
    THEN LowerLetters[CHOOSE i \in 1..26 : UpperLetters[i] = c]
    ELSE c

Quantifiers == {"*", "+"}

\* The compiled pattern: {items}, or {} when the store rejects the pattern
\* (a quantifier that does not follow a repeatable item).
RECURSIVE RegexItems(_)
RegexItems(p) ==
    IF p = <<>> THEN {<<>>}
    ELSE IF p[1] \in Quantifiers THEN {}
    ELSE LET many == Len(p) >= 2 /\ p[2] \in Quantifiers
             possessive == many /\ Len(p) >= 3 /\ p[3] = "+"
             used == 1 + (IF many THEN 1 ELSE 0) + (IF possessive THEN 1 ELSE 0)
             item == [atom |-> p[1],
                      min |-> IF many /\ p[2] = "*" THEN 0 ELSE 1,
                      many |-> many, possessive |-> possessive]
         IN {<<item>> \o rest : rest \in RegexItems(SubSeq(p, used + 1, Len(p)))}

AtomMatches(atom, c) == atom = "." \/ Lower(atom) = Lower(c)

\* How many consecutive characters of s, from pos on, the atom matches.
Run(atom, s, pos) ==
    CHOOSE n \in 0..(Len(s) - pos + 1) :
        /\ \A j \in 0..(n - 1) : AtomMatches(atom, s[pos + j])
        /\ pos + n <= Len(s) => ~AtomMatches(atom, s[pos + n])

\* The positions at which a match of items[k..] that starts at pos may end.
RECURSIVE MatchEnds(_, _, _, _)
MatchEnds(items, k, s, pos) ==
    IF k > Len(items) THEN {pos}
    ELSE LET it == items[k]
             run == Run(it.atom, s, pos)
             counts == IF ~it.many THEN (IF run >= 1 THEN {1} ELSE {})
                       ELSE IF it.possessive
                            THEN (IF run >= it.min THEN {run} ELSE {})
                            ELSE it.min..run
         IN UNION {MatchEnds(items, k + 1, s, pos + c) : c \in counts}

\* {"$regex": p, "$options": "i"}: an unanchored, case-insensitive search
RegexMatches(p, s) ==
    \E items \in RegexItems(p) :
        \E pos \in 1..(Len(s) + 1) : MatchEnds(items, 1, s, pos) # {}

(***************************************************************************)
(* collection.find(query)                                                  *)
(*                                                                         *)
(* A query has the optional clauses title and author (a pattern) and price *)
(* (optional bounds gte and lte).                                          *)
(***************************************************************************)
QueryValid(query) ==
    /\ \A p \in query.title : RegexItems(p) # {}
    /\ \A p \in query.author : RegexItems(p) # {}

DocMatches(doc, query) ==
    /\ \A p \in query.title : RegexMatches(p, doc.title)
    /\ \A p \in query.author : RegexMatches(p, doc.author)
    /\ \A c \in query.price :
          /\ \A lo \in c.gte : doc.price >= lo
          /\ \A hi \in c.lte : doc.price <= hi

\* The documents in natural order, or the store's error for an invalid pattern,
\* which no handler catches (status 500).
Find(coll, query) ==
    IF QueryValid(query)
    THEN LET docs == SelectSeq(coll, LAMBDA d : DocMatches(d, query))
         IN [status |-> 200, books |-> [i \in 1..Len(docs) |-> ToBook(docs[i])]]
    ELSE [status |-> 500, books |-> <<>>]

(***************************************************************************)
(* The searches                                                            *)
(***************************************************************************)
\* if title: ... -- None and "" are both falsy
Truthy(opt) == {t \in opt : t # <<>>}

SearchQuery(title, author, min_price, max_price) ==
    [title |-> Truthy(title),
     author |-> Truthy(author),
     price |-> IF min_price # {} \/ max_price # {}
               THEN {[gte |-> min_price, lte |-> max_price]}
               ELSE {}]

search_books_result(coll, title, author, min_price, max_price) ==
    Find(coll, SearchQuery(title, author, min_price, max_price))

\* f".*{text}.*"
Wrap(text) == <<".", "*">> \o text \o <<".", "*">>

TitleQuery(title) == [title |-> {Wrap(title)}, author |-> {}, price |-> {}]

AuthorQuery(author) == [title |-> {}, author |-> {Wrap(author)}, price |-> {}]

PriceRangeQuery(min_price, max_price) ==
    [title |-> {}, author |-> {},
     price |-> {[gte |-> {min_price}, lte |-> {max_price}]}]

search_books(title, author, min_price, max_price) ==
    LET r == search_books_result(collection, title, author, min_price, max_price) IN
    /\ response' = [op |-> "search_books", title |-> title, author |-> author,
                    min_price |-> min_price, max_price |-> max_price,
                    status |-> r.status, books |-> r.books]
    /\ UNCHANGED <<collection, nextId>>

get_books_by_title(title) ==
    LET r == Find(collection, TitleQuery(title)) IN
    /\ response' = [op |-> "get_books_by_title", title |-> title,
                    status |-> r.status, books |-> r.books]
    /\ UNCHANGED <<collection, nextId>>

get_books_by_author(author) ==
    LET r == Find(collection, AuthorQuery(author)) IN
    /\ response' = [op |-> "get_books_by_author", author |-> author,
                    status |-> r.status, books |-> r.books]
    /\ UNCHANGED <<collection, nextId>>

get_books_by_price_range(min_price, max_price) ==
    LET r == Find(collection, PriceRangeQuery(min_price, max_price)) IN
    /\ response' = [op |-> "get_books_by_price_range",
                    min_price |-> min_price, max_price |-> max_price,
                    status |-> r.status, books |-> r.books]
    /\ UNCHANGED <<collection, nextId>>

(***************************************************************************)
(* The search service over the collections of a fixed catalogue            *)
(***************************************************************************)
SearchCatalogue ==
    <<[title |-> <<"A", "B", "C", "d">>, author |-> <<"A", "n", "n">>, description |-> <<"d">>,
       price |-> 999, stock |-> 1],
      [title |-> <<"x", "a", "b", "c">>, author |-> <<"b", "o", "b">>, description |-> <<"d">>,
       price |-> 1000, stock |-> 2],
      [title |-> <<"x", "y", "z">>, author |-> <<"B", "o">>, description |-> <<"d">>,
       price |-> 2000, stock |-> 0],
      [title |-> <<"b">>, author |-> <<"a", "n", "n", " ", "b">>, description |-> <<"d">>,
       price |-> 2001, stock |-> 4]>>

\* The collection after inserting, in order, the books of catalogue chosen by picked.
Inserted(catalogue, picked) ==
    LET chosen == SelectSeq([i \in 1..Len(catalogue) |-> i], LAMBDA i : i \in picked)
    IN [j \in 1..Len(chosen) |-> Doc(j, catalogue[chosen[j]])]

SearchCollections ==
    {Inserted(SearchCatalogue, picked) : picked \in SUBSET (1..Len(SearchCatalogue))}

TitleTexts == {<<>>, <<"a", "b", "c">>, <<"B">>, <<".">>, <<"+">>, <<"b", "+">>}

\* the title criteria of the filtered search: the texts the store accepts as a pattern
SearchTitleTexts == {t \in TitleTexts : RegexItems(t) # {}}
AuthorTexts == {<<>>, <<"b">>, <<"A", "N">>, <<"+">>}
PriceBounds == {0, 999, 1000, 2000}

Opt(S) == {{}} \cup {{x} : x \in S}

InitSearch ==
    /\ collection \in SearchCollections
    /\ nextId = Len(collection) + 1
    /\ response = NoResponse

NextSearch ==
    \/ \E title \in Opt(SearchTitleTexts), author \in Opt({<<"b">>}),
          min_price \in Opt({1000}), max_price \in Opt({2000}) :
            search_books(title, author, min_price, max_price)
    \/ \E title \in TitleTexts : get_books_by_title(title)
    \/ \E author \in AuthorTexts : get_books_by_author(author)
    \/ \E min_price \in PriceBounds, max_price \in PriceBounds :
            get_books_by_price_range(min_price, max_price)

SpecSearch == InitSearch /\ [][NextSearch]_vars

(***************************************************************************)
(* GET /stats/best-selling                                                 *)
(***************************************************************************)
RECURSIVE SumStock(_)
SumStock(docs) ==
    IF docs = <<>> THEN 0 ELSE docs[1].stock + SumStock(Tail(docs))

\* {"$group": {"_id": "$title", "totalSold": {"$sum": "$stock"}}}
GroupByTitle(coll) ==
    {[_id |-> t,
      totalSold |-> SumStock(SelectSeq(coll, LAMBDA d : d.title = t))] :
        t \in {coll[i].title : i \in 1..Len(coll)}}

\* the $sort stage written {"totalSold": 1}
RECURSIVE SortAscending(_)
SortAscending(groups) ==
    IF groups = {} THEN {<<>>}
    ELSE UNION {{<<g>> \o rest : rest \in SortAscending(groups \ {g})} :
                  g \in {m \in groups :
                            \A o \in groups : o.totalSold >= m.totalSold}}

\* {"$sort": {"totalSold": -1}}: every order the store may produce, groups
\* of equal totalSold in any order
RECURSIVE SortByTotalSold(_)
SortByTotalSold(groups) ==
    IF groups = {} THEN {<<>>}
    ELSE UNION {{<<g>> \o rest : rest \in SortByTotalSold(groups \ {g})} :
                  g \in {m \in groups :
                            \A o \in groups : o.totalSold <= m.totalSold}}

\* the length of the $limit stage
Limit == 5

\* {"$limit": 5}
LimitStage(seq) == SubSeq(seq, 1, IF Len(seq) < Limit THEN Len(seq) ELSE Limit)

BestSelling(coll) == {LimitStage(s) : s \in SortByTotalSold(GroupByTitle(coll))}

get_best_selling_books ==
    /\ \E result \in BestSelling(collection) :
          response' = [op |-> "get_best_selling_books", status |-> 200,
                       result |-> result]
    /\ UNCHANGED <<collection, nextId>>

(***************************************************************************)
(* The statistics service over the collections of a fixed catalogue        *)
(***************************************************************************)
StatsBook(title, stock) ==
    [title |-> title, author |-> <<"b">>, description |-> <<"d">>,
     price |-> 1000, stock |-> stock]

StatsCatalogue ==
    <<StatsBook(<<"A">>, 5), StatsBook(<<"A">>, 3), StatsBook(<<"B">>, 10),
      StatsBook(<<"C">>, 8), StatsBook(<<"D">>, 2), StatsBook(<<"E">>, 1),
      StatsBook(<<"F">>, 1), StatsBook(<<"G">>, 0)>>

StatsCollections ==
    {Inserted(StatsCatalogue, picked) : picked \in SUBSET (1..Len(StatsCatalogue))}

InitStats ==
    /\ collection \in StatsCollections
    /\ nextId = Len(collection) + 1
    /\ response = NoResponse

NextStats == get_best_selling_books

SpecStats == InitStats /\ [][NextStats]_vars

(***************************************************************************)
(* Properties                                                              *)
(***************************************************************************)
Count(x, seq) == Cardinality({i \in 1..Len(seq) : seq[i] = x})

\* the same records, each as often, in any order
SameRecords(a, b) == \A x \in Range(a) \cup Range(b) : Count(x, a) = Count(x, b)

\* C1: every Book stored in the collection has price >= 0 and stock >= 0.
C1_StoredNonNegative ==
    \A i \in 1..Len(collection) :
        collection[i].price >= 0 /\ collection[i].stock >= 0

\* The book of the last create_book is retrievable by the identifier the
\* store assigned, with all fields equal to the input.
Retrievable ==
    \E oid \in response.assigned :
        LET r == GetBookById(collection, ObjectIdStr(oid)) IN
        /\ r.status = 200
        /\ \E d \in r.body : d._id = ObjectIdStr(oid) /\ ToBook(d) = response.book

\* C2 as stated: a Book with price >= 0, stock >= 0 and non-empty title and
\* author (non-empty after trimming, as the data model defines it), whatever
\* its description, is created and then retrievable by its identifier with
\* equal fields.
C2_AnyDescriptionCreated ==
    (/\ response.op = "create_book"
     /\ response.book.price >= 0
     /\ response.book.stock >= 0
     /\ ~IsBlank(response.book.title)
     /\ ~IsBlank(response.book.author))
        => (response.status = 200 /\ Retrievable)

\* C2 (amended): a Book with price >= 0, stock >= 0 and title, author and
\* description each non-empty after trimming whitespace is created, and then
\* retrievable by its assigned identifier with all fields equal to the input.
C2_ValidBookCreatedAndRetrievable ==
    (/\ response.op = "create_book"
     /\ response.book.price >= 0
     /\ response.book.stock >= 0
     /\ ~IsBlank(response.book.title)
     /\ ~IsBlank(response.book.author)
     /\ ~IsBlank(response.book.description))
        => (response.status = 200 /\ Retrievable)

C2_Witness ==
    /\ response.op = "create_book"
    /\ response.status = 200
    /\ response.book.price = 0
    /\ Len(collection) = 2
    /\ Retrievable

\* C3: create_book with price < 0 or stock < 0 is rejected (status 400) and
\* the step leaves the collection as it was.
C3_NegativeCreateRejected ==
    [][(/\ response'.op = "create_book"
        /\ (response'.book.price < 0 \/ response'.book.stock < 0))
          => (response'.status = 400 /\ collection' = collection)]_vars

C3_Witness ==
    /\ response.op = "create_book"
    /\ response.book.price < 0
    /\ response.status = 400
    /\ collection # <<>>

\* C4: get_book_by_id yields NotFound (404) for a well-formed identifier that
\* matches no record and the invalid-identifier outcome (400) for a malformed
\* one, and never the invalid-identifier outcome for a well-formed absent one.
C4_LookupFailuresDistinguished ==
    response.op = "get_book_by_id" =>
        /\ ~WellFormed(response.id) =>
              (response.status = 400 /\ response.detail = "Invalid book ID")
        /\ (WellFormed(response.id) /\ FromHex(response.id) \notin Ids(collection)) =>
              (response.status = 404 /\ response.detail # "Invalid book ID")

\* C5: update_book with a well-formed identifier that matches no record
\* leaves the collection unchanged and reports "Book not found".
C5_UpdateAbsentUnchanged ==
    [][(/\ response'.op = "update_book"
        /\ WellFormed(response'.id)
        /\ FromHex(response'.id) \notin Ids(collection))
          => (collection' = collection /\ response'.message = "Book not found")]_vars

C5_Witness ==
    /\ response.op = "update_book"
    /\ WellFormed(response.id)
    /\ FromHex(response.id) \notin Ids(collection)
    /\ collection # <<>>
    /\ response.message = "Book not found"

\* case-insensitive substring
ContainsIgnoreCase(text, part) ==
    \E i \in 0..(Len(text) - Len(part)) :
        \A j \in 1..Len(part) : Lower(text[i + j]) = Lower(part[j])

\* the criteria of the filtered search as the specification states them
Satisfies(doc, title, author, min_price, max_price) ==
    /\ \A t \in title : ContainsIgnoreCase(doc.title, t)
    /\ \A a \in author : ContainsIgnoreCase(doc.author, a)
    /\ \A lo \in min_price : lo <= doc.price
    /\ \A hi \in max_price : doc.price <= hi

Expected(coll, title, author, min_price, max_price) ==
    LET docs == SelectSeq(coll, LAMBDA d : Satisfies(d, title, author, min_price, max_price))
    IN [i \in 1..Len(docs) |-> ToBook(docs[i])]

\* C6: search_books returns exactly the records that satisfy every present
\* criterion (title and author as case-insensitive substrings, the price
\* bounds inclusive), each exactly once; an absent criterion is no constraint.
C6_SearchReturnsExactlyMatching ==
    response.op = "search_books" =>
        /\ response.status = 200
        /\ SameRecords(response.books,
                       Expected(collection, response.title, response.author,
                                response.min_price, response.max_price))

\* the same outcome: both fail, or both return the same records
SameOutcome(status, books, r) ==
    /\ status = r.status
    /\ SameRecords(books, r.books)

\* C7: each single-field lookup selects the same records as search_books
\* given only that criterion.
C7_LookupsEqualSearch ==
    /\ response.op = "get_books_by_title" =>
          SameOutcome(response.status, response.books,
                      search_books_result(collection, {response.title}, {}, {}, {}))
    /\ response.op = "get_books_by_author" =>
          SameOutcome(response.status, response.books,
                      search_books_result(collection, {}, {response.author}, {}, {}))
    /\ response.op = "get_books_by_price_range" =>
          SameOutcome(response.status, response.books,
                      search_books_result(collection, {}, {},
                                          {response.min_price}, {response.max_price}))

StoredTitles == {collection[i].title : i \in 1..Len(collection)}

\* the sum of stock over all records with the title
TotalSold(title) ==
    SumStock(SelectSeq(collection, LAMBDA d : d.title = title))

Example == Inserted(StatsCatalogue, {1, 2, 3})

\* C8: get_best_selling_books returns at most 5 groups, one per distinct
\* title (all of them when there are at most 5), totalSold the sum of stock
\* over the records of the title, in non-increasing order of totalSold, no
\* omitted title selling more than a returned one; the records (A,5), (A,3),
\* (B,10) yield [(B,10), (A,8)].
C8_BestSellingTopFive ==
    response.op = "get_best_selling_books" =>
        LET r == response.result IN
        /\ Len(r) <= 5
        /\ Len(r) = 5 \/ Len(r) = Cardinality(StoredTitles)
        /\ \A i \in 1..Len(r) :
              r[i]._id \in StoredTitles /\ r[i].totalSold = TotalSold(r[i]._id)
        /\ \A i, j \in 1..Len(r) : i # j => r[i]._id # r[j]._id
        /\ \A i, j \in 1..Len(r) : i < j => r[i].totalSold >= r[j].totalSold
        /\ \A t \in StoredTitles \ {r[i]._id : i \in 1..Len(r)} :
              \A i \in 1..Len(r) : TotalSold(t) <= r[i].totalSold
        /\ collection = Example =>
              r = <<[_id |-> <<"B">>, totalSold |-> 10],
                    [_id |-> <<"A">>, totalSold |-> 8]>>

C8_Witness ==
    /\ response.op = "get_best_selling_books"
    /\ Cardinality(StoredTitles) > 5
    /\ Len(response.result) = 5
    /\ \E i \in 1..5 :
          /\ response.result[i]._id = <<"A">>
          /\ response.result[i].totalSold = 8

\* C9: get_total_books returns the number of records in the collection, and
\* the integer 0, not an absent result, when the collection is empty.
C9_TotalIsCount ==
    response.op = "get_total_books" =>
        /\ response.body = {Len(collection)}
        /\ collection = <<>> => response.body = {0}

C9_Witness ==
    /\ response.op = "get_total_books"
    /\ collection = <<>>
    /\ nextId > 1
    /\ response.body = {0}

\* C10: update_book reports "Book not found" if and only if no record with
\* the given identifier exists; every replacement of an existing record, one
\* equal to the stored record included, is reported as updated.
C10_NotFoundIffAbsent ==
    [][(response'.op = "update_book" /\ WellFormed(response'.id))
          => (response'.message = "Book not found"
                <=> FromHex(response'.id) \notin Ids(collection))]_vars

====
